---- MODULE Spec2Model ----
(***************************************************************************)
(* NestableCheckboxes: the tree-state model of the NestableCheckbox        *)
(* component (components/NestableCheckbox.tsx, types/NestableCheckboxTypes *)
(* .ts, App.tsx).                                                          *)
(*                                                                         *)
(* A forest is a sequence of nodes; a node is the record [name |-> s] or   *)
(* [name |-> s, children |-> forest] (children is an optional field).      *)
(* A CheckboxState is a function from key strings to entries [checked] or  *)
(* [checked, children]; the empty object {} is the empty function << >>.   *)
(***************************************************************************)
EXTENDS Integers, Sequences, FiniteSets, TLC

VARIABLES
    checkboxes,   \* NestableCheckbox's prop: the forest (never reassigned)
    state,        \* NestableCheckbox's useState value: the CheckboxState
    call,         \* the last setCheckboxTree call made on `state`
    args,         \* arguments of a call of one of the pure functions
    ret           \* its return value, [done |-> FALSE] while not returned

vars == <<checkboxes, state, call, args, ret>>

(***************************************************************************)
(* Bounds of the model.                                                    *)
(***************************************************************************)
MaxNodes == 4        \* nodes of a generated forest (component runs)
MaxExportNodes == 3  \* nodes of a generated forest (export calls)
NumKeys == 3         \* entries of a generated CheckboxState
MaxNum == 12         \* largest depth / index handed to makeKey

Labels == {"A", "B"}

(***************************************************************************)
(* JavaScript values and plain-object property access.                     *)
(***************************************************************************)
Undefined == [type |-> "undefined"]

FunctionObject == [type |-> "function"]

ObjectPrototypeObject == [type |-> "object"]

\* Names every plain object inherits from Object.prototype (function valued).
ObjectPrototypeFunctions ==
    {"constructor", "toString", "toLocaleString", "valueOf",
     "hasOwnProperty", "isPrototypeOf", "propertyIsEnumerable"}

\* obj?.[key] on a plain object: own property first, then Object.prototype.
Get(obj, key) ==
    IF key \in DOMAIN obj THEN obj[key]
    ELSE IF key = "__proto__" THEN ObjectPrototypeObject
    ELSE IF key \in ObjectPrototypeFunctions THEN FunctionObject
    ELSE Undefined

\* if (v): undefined is falsy, every object (entry, function) is truthy.
Truthy(v) == ~("type" \in DOMAIN v /\ v.type = "undefined")

\* {...v}: the own enumerable properties; none for undefined, for a function
\* or for Object.prototype.
OwnEnumerable(v) == IF "type" \in DOMAIN v THEN << >> ELSE v

\* obj[key] = val on a plain object: "__proto__" is the prototype setter and
\* creates no own property.
Put(obj, key, val) == IF key = "__proto__" THEN obj ELSE (key :> val) @@ obj

\* children && children.length > 0
HasChildren(v) == "children" \in DOMAIN v /\ Len(v.children) > 0

(***************************************************************************)
(* makeKey: [name, depth, index].join('-')                                 *)
(***************************************************************************)
RECURSIVE join(_, _)
join(parts, sep) ==
    IF Len(parts) = 0 THEN ""
    ELSE IF Len(parts) = 1 THEN parts[1]
    ELSE parts[1] \o sep \o join(Tail(parts), sep)

\* makeKey joining with the empty string instead of '-'.
makeKey_noSeparator(name, depth, index) ==
    join(<<name, ToString(depth), ToString(index)>>, "")

makeKey(name, depth, index) ==
    join(<<name, ToString(depth), ToString(index)>>, "-")

(***************************************************************************)
(* constructState / updateNodeState                                        *)
(***************************************************************************)
\* checkboxState[key] = {checked: false, children?: child keys}
BuilderEntry(node) ==
    IF HasChildren(node)
    THEN [checked |-> FALSE,
          children |-> [i \in 1..Len(node.children) |->
                          makeKey(node.children[i].name, node.depth + 1, i - 1)]]
    ELSE [checked |-> FALSE]

\* One call of updateNodeState: pop a node, push its children, record it.
updateNodeState(checkboxState, nodeStack) ==
    LET node == nodeStack[Len(nodeStack)]
        rest == SubSeq(nodeStack, 1, Len(nodeStack) - 1)
        key == makeKey(node.name, node.depth, node.index)
        pushed == IF HasChildren(node)
                  THEN [i \in 1..Len(node.children) |->
                          [depth |-> node.depth + 1, index |-> i - 1]
                              @@ node.children[i]]
                  ELSE << >>
    IN [state |-> Put(checkboxState, key, BuilderEntry(node)),
        stack |-> rest \o pushed]

RECURSIVE constructLoop(_, _)
constructLoop(checkboxState, nodeStack) ==
    IF Len(nodeStack) > 0
    THEN LET r == updateNodeState(checkboxState, nodeStack)
         IN constructLoop(r.state, r.stack)
    ELSE checkboxState

constructState(checkboxItems) ==
    constructLoop(<< >>,
                  [i \in 1..Len(checkboxItems) |->
                      [depth |-> 1, index |-> i - 1] @@ checkboxItems[i]])

(***************************************************************************)
(* setCheckboxTree                                                         *)
(***************************************************************************)
\* The entry written with checked: !node.checked instead of toSet.
NewEntry_toggle(node, toSet) ==
    [checked |-> ~("checked" \in DOMAIN node /\ node.checked)]
        @@ OwnEnumerable(node)

\* { ...node, checked: toSet }
NewEntry(node, toSet) == [checked |-> toSet] @@ OwnEnumerable(node)

\* The while loop: newNodes after the key stack is drained.
RECURSIVE setLoop(_, _, _, _)
setLoop(currentState, keyStack, newNodes, toSet) ==
    IF Len(keyStack) > 0
    THEN LET key == keyStack[Len(keyStack)]
             rest == SubSeq(keyStack, 1, Len(keyStack) - 1)
             node == Get(currentState, key)
         IN setLoop(currentState,
                    IF HasChildren(node) THEN rest \o node.children ELSE rest,
                    Put(newNodes, key, NewEntry(node, toSet)),
                    toSet)
    ELSE newNodes

\* The return value without the spread of currentState.
spread_onlyNew(currentState, newNodes) == newNodes

\* { ...currentState, ...newNodes }
spread(currentState, newNodes) == newNodes @@ currentState

setCheckboxTree(currentState, targetNodeKey, toSet) ==
    IF Truthy(Get(currentState, targetNodeKey))
    THEN spread(currentState,
                setLoop(currentState, <<targetNodeKey>>, << >>, toSet))
    ELSE currentState

\* The keys the loop pops: one read of currentState and one write of
\* newNodes each.
RECURSIVE visitedKeys(_, _)
visitedKeys(currentState, keyStack) ==
    IF Len(keyStack) > 0
    THEN LET key == keyStack[Len(keyStack)]
             rest == SubSeq(keyStack, 1, Len(keyStack) - 1)
             node == Get(currentState, key)
         IN {key} \cup visitedKeys(currentState,
                IF HasChildren(node) THEN rest \o node.children ELSE rest)
    ELSE {}

\* The keys whose entries one call reads, writes or copies: the looked-up
\* target, the popped keys, and every own property the final spread copies.
touchedKeys(currentState, targetNodeKey, toSet) ==
    IF Truthy(Get(currentState, targetNodeKey))
    THEN visitedKeys(currentState, <<targetNodeKey>>)
            \cup DOMAIN currentState
            \cup DOMAIN setLoop(currentState, <<targetNodeKey>>, << >>, toSet)
    ELSE {targetNodeKey}

(***************************************************************************)
(* enrichCheckboxDetails / getCheckboxJSON                                 *)
(***************************************************************************)
\* The lookup defaulting to true instead of false.
CheckedOrFalse_defaultTrue(currentState, stateKey) ==
    LET v == Get(currentState, stateKey)
    IN IF "checked" \in DOMAIN v THEN v.checked ELSE TRUE

\* currentState?.[stateKey]?.checked ?? false
CheckedOrFalse(currentState, stateKey) ==
    LET v == Get(currentState, stateKey)
    IN IF "checked" \in DOMAIN v THEN v.checked ELSE FALSE

RECURSIVE enrichCheckboxDetails(_, _, _, _)
enrichCheckboxDetails(checkboxDetails, currentState, depth, index) ==
    LET stateKey == makeKey(checkboxDetails.name, depth, index)
        checked == CheckedOrFalse(currentState, stateKey)
    IN (IF HasChildren(checkboxDetails)
        THEN [children |->
                [i \in 1..Len(checkboxDetails.children) |->
                    enrichCheckboxDetails(checkboxDetails.children[i],
                                          currentState, depth + 1, i - 1)]]
        ELSE << >>)
       @@ [checked |-> checked] @@ checkboxDetails

\* The array getCheckboxJSON hands to JSON.stringify.
enrichAll(checkboxItems, currentState) ==
    [i \in 1..Len(checkboxItems) |->
        enrichCheckboxDetails(checkboxItems[i], currentState, 1, i - 1)]

\* JSON.stringify of an array of JsonDetails: properties in insertion order
\* (name, children when the input node has the property, checked).
RECURSIVE stringify(_)
stringify(items) ==
    "[" \o join([i \in 1..Len(items) |->
                    "{\"name\":\"" \o items[i].name \o "\""
                    \o (IF "children" \in DOMAIN items[i]
                        THEN ",\"children\":" \o stringify(items[i].children)
                        ELSE "")
                    \o ",\"checked\":"
                    \o (IF items[i].checked THEN "true" ELSE "false")
                    \o "}"], ",")
    \o "]"

getCheckboxJSON(checkboxItems, currentState) ==
    stringify(enrichAll(checkboxItems, currentState))

(***************************************************************************)
(* App.tsx: the forest the application renders.                            *)
(***************************************************************************)
testItems ==
    << [name |-> "A"],
       [name |-> "B"],
       [name |-> "C",
        children |->
          << [name |-> "CA",
              children |-> << [name |-> "CAA"],
                              [name |-> "CAB",
                               children |-> << [name |-> "CABA"] >>] >>],
             [name |-> "CB", children |-> << [name |-> "CBA"] >>] >>] >>

(***************************************************************************)
(* Forests and positions.  A position is the path of 0-based sibling       *)
(* indices from a root; its depth is the length of the path.               *)
(***************************************************************************)
RECURSIVE TreesOf(_), ForestsOf(_)
\* The trees with exactly n nodes (n >= 1); leaves carry no children field.
TreesOf(n) ==
    IF n = 1 THEN {[name |-> l] : l \in Labels}
    ELSE {[name |-> l, children |-> f] : l \in Labels, f \in ForestsOf(n - 1)}

\* The forests with exactly n nodes.
ForestsOf(n) ==
    IF n = 0 THEN {<< >>}
    ELSE UNION {{<<t>> \o f : t \in TreesOf(k), f \in ForestsOf(n - k)} :
                k \in 1..n}

\* The same forest with every leaf written as {name, children: []}.
RECURSIVE WithEmptyChildren(_)
WithEmptyChildren(forest) ==
    [i \in 1..Len(forest) |->
        [name |-> forest[i].name,
         children |-> IF "children" \in DOMAIN forest[i]
                      THEN WithEmptyChildren(forest[i].children)
                      ELSE << >>]]

GeneratedForests(max) ==
    LET plain == UNION {ForestsOf(n) : n \in 0..max}
    IN plain \cup {WithEmptyChildren(f) : f \in plain}

RECURSIVE Positions(_)
Positions(forest) ==
    UNION {{<<i - 1>>} \cup
           (IF "children" \in DOMAIN forest[i]
            THEN {<<i - 1>> \o p : p \in Positions(forest[i].children)}
            ELSE {}) : i \in 1..Len(forest)}

RECURSIVE NodeAt(_, _)
NodeAt(forest, p) ==
    IF Len(p) = 1 THEN forest[p[1] + 1]
    ELSE NodeAt(forest[p[1] + 1].children, Tail(p))

IsPrefix(p, q) == Len(p) <= Len(q) /\ SubSeq(q, 1, Len(p)) = p

\* The keys reachable from key k through the children lists of mapping m
\* (k included), as a least fixed point.
RECURSIVE Closure(_, _)
Closure(m, ks) ==
    LET next == ks \cup UNION {{m[k].children[i] : i \in 1..Len(m[k].children)} :
                               k \in {x \in ks \cap DOMAIN m :
                                        "children" \in DOMAIN m[x]}}
    IN IF next = ks THEN ks ELSE Closure(m, next)

Reach(m, k) == Closure(m, {k})

(***************************************************************************)
(* The component: NestableCheckbox holding the state, one InnerCheckbox    *)
(* per position.  The export button only reads the state: its text is the  *)
(* return value of getCheckboxJSON, called below on drawn inputs.          *)
(***************************************************************************)
NoCall == [kind |-> "none"]

Idle == [fn |-> "none"]

NotReturned == [done |-> FALSE]

\* useState(constructState(checkboxes))
Init ==
    /\ checkboxes \in GeneratedForests(MaxNodes) \cup {testItems}
    /\ state = constructState(checkboxes)
    /\ call = NoCall
    /\ args = Idle
    /\ ret = NotReturned

\* The onChange handler of the InnerCheckbox rendered at position p.
OnChange(p) ==
    LET name == NodeAt(checkboxes, p).name
        depth == Len(p)
        nodeIndex == p[Len(p)]
        nodeKey == makeKey(name, depth, nodeIndex)
        checked == CheckedOrFalse(state, nodeKey)
    IN /\ state' = setCheckboxTree(state, nodeKey, ~checked)
       /\ call' = [kind |-> "onChange", pos |-> p, key |-> nodeKey,
                   toSet |-> ~checked, first |-> (call = NoCall),
                   subtree |-> Reach(state, nodeKey),
                   touched |-> touchedKeys(state, nodeKey, ~checked)]
       /\ UNCHANGED <<checkboxes, args, ret>>

Next == \E p \in Positions(checkboxes) : OnChange(p)

Spec == Init /\ [][Next]_vars

(***************************************************************************)
(* The mutator called by a collaborator with any key and any value.        *)
(***************************************************************************)
AbsentKeys == {"Z-0-0", "constructor"}

SetSubtree(k, v) ==
    /\ state' = setCheckboxTree(state, k, v)
    /\ call' = [kind |-> "setSubtree", pos |-> << >>, key |-> k,
                toSet |-> v, first |-> (call = NoCall),
                subtree |-> Reach(state, k),
                touched |-> touchedKeys(state, k, v)]
    /\ UNCHANGED <<checkboxes, args, ret>>

NextApi == \E k \in DOMAIN state \cup AbsentKeys, v \in BOOLEAN : SetSubtree(k, v)

SpecApi == Init /\ [][NextApi]_vars

(***************************************************************************)
(* Calls of the pure functions on inputs drawn from bounded sets.          *)
(***************************************************************************)
Unused ==
    /\ checkboxes = << >>
    /\ state = << >>
    /\ call = NoCall

\* ---- makeKey ----
KeyLabels == {"", "A", "B", "A-1", "A-1-2", "1", "-", "1-1", "A1", "-1"}

KeyInputs(max) ==
    {[fn |-> "makeKey", name |-> l, depth |-> d, index |-> i] :
        l \in KeyLabels, d \in 0..max, i \in 0..max}

KeyInit == Unused /\ args \in KeyInputs(MaxNum) /\ ret = NotReturned

KeyCall ==
    /\ args.fn = "makeKey" /\ ~ret.done
    /\ ret' = [done |-> TRUE, value |-> makeKey(args.name, args.depth, args.index)]
    /\ UNCHANGED <<checkboxes, state, call, args>>

SpecKey == KeyInit /\ [][KeyCall]_vars

\* ---- setCheckboxTree ----
KeyName(i) == "k" \o ToString(i)

Dangling == "gone"

\* The subsequence of seq at the indices in idx.
RECURSIVE Pick(_, _)
Pick(seq, idx) ==
    IF Len(seq) = 0 THEN << >>
    ELSE (IF Len(seq) \in idx THEN Pick(SubSeq(seq, 1, Len(seq) - 1), idx)
                                     \o <<seq[Len(seq)]>>
          ELSE Pick(SubSeq(seq, 1, Len(seq) - 1), idx))

\* Entries for key i: children among the later keys (so the mapping is
\* acyclic) and the dangling key, or no children field.
EntriesFor(i) ==
    LET later == [j \in 1..(NumKeys - i) |-> KeyName(i + j)] \o <<Dangling>>
    IN {[checked |-> c] : c \in BOOLEAN}
       \cup {[checked |-> c, children |-> Pick(later, idx)] :
                c \in BOOLEAN, idx \in SUBSET (1..Len(later))}

RECURSIVE MappingsFrom(_)
MappingsFrom(i) ==
    IF i > NumKeys THEN {<< >>}
    ELSE LET rest == MappingsFrom(i + 1)
         IN rest \cup {(KeyName(i) :> e) @@ r : e \in EntriesFor(i), r \in rest}

SetInputs(numKeys) ==
    {[fn |-> "setCheckboxTree", currentState |-> m, targetNodeKey |-> k,
      toSet |-> v] :
        m \in MappingsFrom(1),
        k \in {KeyName(i) : i \in 1..numKeys}
                \cup {Dangling, "constructor", "__proto__"},
        v \in BOOLEAN}

SetInit == Unused /\ args \in SetInputs(NumKeys) /\ ret = NotReturned

SetCall ==
    /\ args.fn = "setCheckboxTree" /\ ~ret.done
    /\ ret' = [done |-> TRUE,
               value |-> setCheckboxTree(args.currentState, args.targetNodeKey,
                                         args.toSet)]
    /\ UNCHANGED <<checkboxes, state, call, args>>

SpecSet == SetInit /\ [][SetCall]_vars

\* ---- getCheckboxJSON ----
\* Mappings holding any subset of the Builder's entries for forest f, with
\* any checked values.
PartialStates(f) ==
    LET base == constructState(f)
    IN UNION {{[k \in D |-> [checked |-> c[k]] @@ base[k]] : c \in [D -> BOOLEAN]} :
              D \in SUBSET DOMAIN base}

ExportInputs(max) ==
    UNION {{[fn |-> "getCheckboxJSON", checkboxes |-> f, currentState |-> m] :
                m \in PartialStates(f)} :
           f \in GeneratedForests(max)}

ExportInit == Unused /\ args \in ExportInputs(MaxExportNodes) /\ ret = NotReturned

ExportCall ==
    /\ args.fn = "getCheckboxJSON" /\ ~ret.done
    /\ ret' = [done |-> TRUE,
               value |-> enrichAll(args.checkboxes, args.currentState),
               text |-> getCheckboxJSON(args.checkboxes, args.currentState)]
    /\ UNCHANGED <<checkboxes, state, call, args>>

SpecExport == ExportInit /\ [][ExportCall]_vars

(***************************************************************************)
(* Properties.                                                             *)
(***************************************************************************)
\* Every key named in a children list is an entry of the mapping.
WellFormed(m) ==
    \A k \in DOMAIN m :
        "children" \in DOMAIN m[k] =>
            \A i \in 1..Len(m[k].children) : m[k].children[i] \in DOMAIN m

\* No key is reachable from one of its own children.
Acyclic(m) ==
    \A k \in DOMAIN m :
        "children" \in DOMAIN m[k] =>
            k \notin Closure(m, {m[k].children[i] : i \in 1..Len(m[k].children)})

\* The forest an enriched forest annotates: the checked fields removed.
RECURSIVE Unannotate(_)
Unannotate(items) ==
    [i \in 1..Len(items) |->
        IF "children" \in DOMAIN items[i]
        THEN [name |-> items[i].name, children |-> Unannotate(items[i].children)]
        ELSE [name |-> items[i].name]]

\* The key the Builder gives the node at position p of forest f.
KeyAt(f, p) == makeKey(NodeAt(f, p).name, Len(p), p[Len(p)])

SetReturned == args.fn = "setCheckboxTree" /\ ret.done

\* C1: for a mapping S whose children keys all exist and that is acyclic,
\* a key k of S and a boolean v, setCheckboxTree(S, k, v) has the key set of
\* S; every key reachable from k (k included) has checked = v and the
\* children list (or its absence) it has in S; every other key has the entry
\* it has in S.
C1_SetSubtreeFrame ==
    (/\ SetReturned
     /\ WellFormed(args.currentState) /\ Acyclic(args.currentState)
     /\ args.targetNodeKey \in DOMAIN args.currentState)
    => LET S == args.currentState
           R == ret.value
           sub == Reach(S, args.targetNodeKey)
       IN /\ DOMAIN R = DOMAIN S
          /\ \A x \in DOMAIN S :
                IF x \in sub
                THEN /\ R[x].checked = args.toSet
                     /\ DOMAIN R[x] = DOMAIN S[x]
                     /\ "children" \in DOMAIN S[x] => R[x].children = S[x].children
                ELSE R[x] = S[x]

\* C1 witness: a returned call on a well-formed mapping whose target has a
\* descendant, that flipped an entry and left an entry outside the subtree.
C1_Witness ==
    /\ SetReturned
    /\ WellFormed(args.currentState) /\ Acyclic(args.currentState)
    /\ args.targetNodeKey \in DOMAIN args.currentState
    /\ Cardinality(Reach(args.currentState, args.targetNodeKey)) >= 2
    /\ \E x \in DOMAIN args.currentState :
          x \notin Reach(args.currentState, args.targetNodeKey)
    /\ \E x \in Reach(args.currentState, args.targetNodeKey) :
          args.currentState[x].checked # args.toSet

\* C2: after constructState and one toggle of the node at position p (from
\* unchecked to checked), the export annotates p and every descendant of p
\* with checked true and every other position of the forest with false.
C2_OneToggleExport ==
    (call.kind = "onChange" /\ call.first /\ call.toSet)
    => \A q \in Positions(checkboxes) :
          NodeAt(enrichAll(checkboxes, state), q).checked = IsPrefix(call.pos, q)

\* C3: constructState gives the mapping exactly one entry per node of the
\* forest: as many keys as the forest has positions.
C3_OneEntryPerNode ==
    call = NoCall => Cardinality(DOMAIN state) = Cardinality(Positions(checkboxes))

\* C4: makeKey is injective over (depth, index): whatever the labels, inputs
\* that differ in depth or in index get different keys.
C4_KeyInjective ==
    (args.fn = "makeKey" /\ ret.done)
    => \A o \in KeyInputs(MaxNum) :
          (o.depth # args.depth \/ o.index # args.index)
          => makeKey(o.name, o.depth, o.index) # ret.value

\* C4 witness: a key made for a label that holds '-' and a digit, with a
\* two-digit index.
C4_Witness ==
    /\ args.fn = "makeKey" /\ ret.done
    /\ args.name = "A-1" /\ args.depth = 2 /\ args.index = 11
    /\ ret.value = "A-1-2-11"

\* C5: for a key that is not an entry of S, setCheckboxTree returns S
\* unchanged.
C5_AbsentKeyNoOp ==
    (SetReturned /\ args.targetNodeKey \notin DOMAIN args.currentState)
    => ret.value = args.currentState

\* C6: the export has the shape of the forest, and the node at each position
\* carries S[key].checked for the Builder's key of that position, false when
\* S has no such key; exported from constructState(F) every node is false.
C6_ExportAnnotates ==
    (args.fn = "getCheckboxJSON" /\ ret.done)
    => LET F == args.checkboxes
           S == args.currentState
       IN /\ Unannotate(ret.value) = F
          /\ \A p \in Positions(F) :
                NodeAt(ret.value, p).checked =
                    (IF KeyAt(F, p) \in DOMAIN S THEN S[KeyAt(F, p)].checked
                     ELSE FALSE)
          /\ S = constructState(F)
                => \A p \in Positions(F) : ~NodeAt(ret.value, p).checked

\* C6 witness: an export of a forest with a nested node, where one position's
\* key is missing from the mapping and another position is checked.
C6_Witness ==
    /\ args.fn = "getCheckboxJSON" /\ ret.done
    /\ \E p \in Positions(args.checkboxes) : Len(p) >= 2
    /\ \E p \in Positions(args.checkboxes) :
          KeyAt(args.checkboxes, p) \notin DOMAIN args.currentState
    /\ \E p \in Positions(args.checkboxes) : NodeAt(ret.value, p).checked

\* C7: setCheckboxTree is idempotent: applied again with the same key and
\* value to its own result, it returns that result.
C7_Idempotent ==
    SetReturned
    => setCheckboxTree(ret.value, args.targetNodeKey, args.toSet) = ret.value

\* C7 witness: a returned call that changed the checked value of its target
\* and of a descendant.
C7_Witness ==
    /\ SetReturned
    /\ args.targetNodeKey \in DOMAIN args.currentState
    /\ \E x \in Reach(args.currentState, args.targetNodeKey)
                \cap DOMAIN args.currentState :
          /\ x # args.targetNodeKey
          /\ args.currentState[x].checked # ret.value[x].checked
    /\ args.currentState[args.targetNodeKey].checked
          # ret.value[args.targetNodeKey].checked

\* C8: a toggle reads, writes or copies only entries of the target's
\* subtree: entries of unrelated branches incur no work.
C8_CostWithinSubtree ==
    call.kind = "onChange" => call.touched \subseteq call.subtree

\* C9: after any sequence of setCheckboxTree calls (any key, any value) the
\* mapping has the key set and the children lists of constructState's
\* result, every children key is an entry, and the mapping is acyclic.
C9_ShapePreserved ==
    LET base == constructState(checkboxes)
    IN /\ DOMAIN state = DOMAIN base
       /\ \A k \in DOMAIN base :
             /\ DOMAIN state[k] = DOMAIN base[k]
             /\ "children" \in DOMAIN base[k] => state[k].children = base[k].children
       /\ WellFormed(state)
       /\ Acyclic(state)

\* C10: when the traversal from an existing target reaches a child key that
\* is not an entry of the input mapping, the key is skipped: the output has
\* exactly the key set of the input.
C10_DanglingChildSkipped ==
    (/\ SetReturned
     /\ args.targetNodeKey \in DOMAIN args.currentState
     /\ \E x \in Reach(args.currentState, args.targetNodeKey) :
           x \notin DOMAIN args.currentState)
    => DOMAIN ret.value = DOMAIN args.currentState

====
